---- MODULE Spec2Model ----
(***************************************************************************)
(* State-machine model of src/src/tweenable.js (shifty): the Tweenable     *)
(* life cycle (setConfig, tween, pause, resume, seek, stop), the shared    *)
(* tweenQueue and the processQueue walk, and the interpolation arithmetic. *)
(***************************************************************************)
EXTENDS Integers, Sequences, FiniteSets, TLC

(***************************************************************************)
(* Bounds of the model.                                                    *)
(***************************************************************************)
NumTweens == 3
MaxTime == 2
MaxQueue == 2
MaxPromises == 2
MantissaBits == 3

Tweens == 1..NumTweens

(***************************************************************************)
(* JavaScript numbers.  A state value is a binary floating-point number    *)
(* with a MantissaBits-bit significand, written as a reduced fraction      *)
(* <<n, d>>; <<0, 0>> is NaN.  Every arithmetic operation rounds its exact  *)
(* result to the nearest representable value, ties to even.                *)
(***************************************************************************)
NaN == <<0, 0>>

Abs(n) == IF n < 0 THEN -n ELSE n

RECURSIVE Pow2(_)
Pow2(k) == IF k = 0 THEN 1 ELSE 2 * Pow2(k - 1)

RECURSIVE GCD(_, _)
GCD(a, b) == IF b = 0 THEN a ELSE GCD(b, a % b)

Norm(n, d) ==
  IF d = 0 THEN NaN
  ELSE LET s == IF d < 0 THEN -1 ELSE 1
           g == GCD(Abs(n), Abs(d))
       IN <<(s * n) \div g, (s * d) \div g>>

Num(i) == <<i, 1>>

IsNaN(x) == x[2] = 0

SignificandEnd == Pow2(MantissaBits)

SignificandStart == Pow2(MantissaBits - 1)

RECURSIVE RoundScaled(_, _, _)
RoundScaled(a, d, e) ==
  IF a >= SignificandEnd * d THEN RoundScaled(a, 2 * d, e + 1)
  ELSE IF a < SignificandStart * d THEN RoundScaled(2 * a, d, e - 1)
  ELSE LET q == a \div d
           r == a % d
           m == IF 2 * r > d \/ (2 * r = d /\ q % 2 = 1) THEN q + 1 ELSE q
       IN IF e >= 0 THEN Norm(m * Pow2(e), 1) ELSE Norm(m, Pow2(-e))

Round(x) ==
  IF IsNaN(x) THEN NaN
  ELSE IF x[1] = 0 THEN Num(0)
  ELSE LET r == RoundScaled(Abs(x[1]), x[2], 0)
       IN IF x[1] < 0 THEN <<-r[1], r[2]>> ELSE r

FAdd(x, y) ==
  IF IsNaN(x) \/ IsNaN(y) THEN NaN
  ELSE Round(Norm(x[1] * y[2] + y[1] * x[2], x[2] * y[2]))

FSub(x, y) ==
  IF IsNaN(x) \/ IsNaN(y) THEN NaN
  ELSE Round(Norm(x[1] * y[2] - y[1] * x[2], x[2] * y[2]))

FMul(x, y) ==
  IF IsNaN(x) \/ IsNaN(y) THEN NaN
  ELSE Round(Norm(x[1] * y[1], x[2] * y[2]))

(***************************************************************************)
(* Times are integers (milliseconds).  undefinedTime stands for a          *)
(* timestamp that is undefined or NaN: arithmetic on it gives NaN and      *)
(* every comparison with it is false.  null is the value setConfig gives   *)
(* _pausedAtTime; it converts to 0 in arithmetic.                          *)
(***************************************************************************)
undefinedTime == -1000
null == -2000

IsTime(t) == t # undefinedTime

TAdd(a, b) == IF IsTime(a) /\ IsTime(b) THEN a + b ELSE undefinedTime

TSub(a, b) == IF IsTime(a) /\ IsTime(b) THEN a - b ELSE undefinedTime

TLess(a, b) == IsTime(a) /\ IsTime(b) /\ a < b

TGeq(a, b) == IsTime(a) /\ IsTime(b) /\ a >= b

TMin(a, b) ==
  IF IsTime(a) /\ IsTime(b) THEN (IF a < b THEN a ELSE b) ELSE undefinedTime

ToNumber(t) == IF t = null THEN 0 ELSE t

FDivTime(n, d) ==
  IF IsTime(n) /\ IsTime(d) THEN Round(Norm(n, d)) ELSE NaN

(***************************************************************************)
(* Easing curves and interpolation.                                        *)
(***************************************************************************)
DEFAULT_EASING == "linear"

formulas(name, pos) ==
  CASE name = "linear" -> pos
    [] name = "easeInQuad" -> FMul(pos, pos)

tweenProp(start, end, easingName, position) ==
  FAdd(start, FMul(FSub(end, start), formulas(easingName, position)))

tweenProps(forPosition, currentState, originalState, targetState, duration, timestamp, easing) ==
  LET normalizedPosition ==
        IF TLess(forPosition, timestamp) THEN Num(0)
        ELSE FDivTime(TSub(forPosition, timestamp), duration)
  IN [key \in DOMAIN currentState |->
        tweenProp(originalState[key], targetState[key], easing[key],
                  normalizedPosition)]

(***************************************************************************)
(* State objects are functions from property names to numbers; {} is the   *)
(* function with the empty domain.                                         *)
(***************************************************************************)
EmptyObject == << >>

Spread(a, b) ==
  [k \in (DOMAIN a) \cup (DOMAIN b) |-> IF k \in DOMAIN b THEN b[k] ELSE a[k]]

(***************************************************************************)
(* An easing argument is undefined, a curve name, or an object of names.   *)
(***************************************************************************)
EasingUndefined == [type |-> "undefined", name |-> "", map |-> EmptyObject]

EasingName(n) == [type |-> "string", name |-> n, map |-> EmptyObject]

EasingObject(m) == [type |-> "object", name |-> "", map |-> m]

EasingFunction(f) == [type |-> "function", name |-> f, map |-> EmptyObject]

composeOverEasingKeys(fromTweenParams, easingArg) ==
  LET easing == IF easingArg.type = "undefined"
                THEN EasingName(DEFAULT_EASING) ELSE easingArg
  IN IF easing.type = "string" \/ easing.type = "function"
     THEN [prop \in DOMAIN fromTweenParams |-> easing.name]
     ELSE [prop \in DOMAIN easing.map |-> easing.map[prop]]

composeEasingObject(fromTweenParams, easingArg) ==
  LET easing == IF easingArg.type = "undefined"
                THEN EasingName(DEFAULT_EASING) ELSE easingArg
  IN IF easing.type = "string" \/ easing.type = "function"
     THEN [prop \in DOMAIN fromTweenParams |-> easing.name]
     ELSE [prop \in DOMAIN fromTweenParams |->
             IF prop \in DOMAIN easing.map THEN easing.map[prop]
             ELSE DEFAULT_EASING]

(***************************************************************************)
(* The configurations callers pass to setConfig and tween.  from and to    *)
(* are sequences of length 0 (undefined) or 1 (the object given).          *)
(***************************************************************************)
LinearConfig ==
  [from |-> << [x |-> Num(0)] >>, to |-> << [x |-> Num(10)] >>,
   duration |-> 2, delay |-> 0, easing |-> EasingUndefined]

DelayedConfig ==
  [from |-> << [x |-> Num(1)] >>, to |-> << [x |-> Num(14)] >>,
   duration |-> 2, delay |-> 1, easing |-> EasingName("easeInQuad")]

ShortConfig ==
  [from |-> << [x |-> Num(0)] >>, to |-> << [x |-> Num(10)] >>,
   duration |-> 1, delay |-> 0, easing |-> EasingUndefined]

ConfigSet == {LinearConfig, DelayedConfig}

NoConfig == [from |-> << >>, to |-> << >>, duration |-> -1, delay |-> -1,
             easing |-> EasingUndefined]

SeekSet == {-1, 1, 3}

(***************************************************************************)
(* Inputs of composeEasingObject and of setConfig with differing key sets: *)
(* state objects over the keys x and y, and easing arguments that are      *)
(* undefined, a name, a function, or an object over the keys x, y and z.   *)
(***************************************************************************)
StateObjects == {[k \in S |-> Num(0)] : S \in SUBSET {"x", "y"}}

EasingValues == {"linear", "easeInQuad", "customFn"}

EasingArgs ==
  {EasingUndefined, EasingName("linear"), EasingName("easeInQuad"),
   EasingFunction("customFn")}
  \cup {EasingObject(m) :
          m \in UNION {[S -> EasingValues] : S \in SUBSET {"x", "y", "z"}}}

KeyConfigSet ==
  {[from |-> f, to |-> g, duration |-> 1, delay |-> 0, easing |-> e] :
     f \in {<< >>, << [x |-> Num(0)] >>, << [x |-> Num(0), y |-> Num(1)] >>},
     g \in {<< >>, << [x |-> Num(10)] >>, << [y |-> Num(10)] >>,
            << [x |-> Num(10), y |-> Num(10)] >>},
     e \in {EasingUndefined, EasingObject([y |-> "easeInQuad"])}}

(***************************************************************************)
(* A step callback does nothing, or calls tween() or stop() on another     *)
(* Tweenable.                                                              *)
(***************************************************************************)
noop == [do |-> "noop", on |-> 0]

StartsTween(u) == [do |-> "tween", on |-> u]

StopsTween(u) == [do |-> "stop", on |-> u]

StepStartsConfig ==
  [from |-> << [x |-> Num(0)] >>, to |-> << [x |-> Num(10)] >>,
   duration |-> 2, delay |-> 0, easing |-> EasingUndefined,
   step |-> StartsTween(3)]

StepStopsConfig ==
  [from |-> << [x |-> Num(0)] >>, to |-> << [x |-> Num(10)] >>,
   duration |-> 2, delay |-> 0, easing |-> EasingUndefined,
   step |-> StopsTween(2)]

(***************************************************************************)
(* A deferred result: id 0 is "no promise yet" (undefined).                *)
(***************************************************************************)
NoPromise == [id |-> 0, state |-> "undefined"]

settle(promise, outcome) ==
  IF promise.state = "pending" THEN [promise EXCEPT !.state = outcome]
  ELSE promise

(***************************************************************************)
(* A Tweenable as the constructor leaves it (initialState = {}, no config).*)
(***************************************************************************)
NewTweenable ==
  [configured |-> FALSE,
   currentState |-> EmptyObject,
   originalState |-> EmptyObject,
   targetState |-> EmptyObject,
   easing |-> EmptyObject,
   delay |-> undefinedTime,
   duration |-> undefinedTime,
   timestamp |-> undefinedTime,
   pausedAtTime |-> null,
   isTweening |-> FALSE,
   isPaused |-> FALSE,
   step |-> noop,
   promise |-> NoPromise]

VARIABLES tweens, tweenQueue, clock, last, pauseHist

vars == <<tweens, tweenQueue, clock, last, pauseHist>>

(***************************************************************************)
(* The methods, as functions of a world w: the Tweenables (tw), the queue  *)
(* (q), the number of step and start callbacks invoked so far in the       *)
(* current call (steps, starts) and whether the call threw (threw).        *)
(***************************************************************************)
World ==
  [tw |-> tweens, q |-> tweenQueue,
   steps |-> [t \in Tweens |-> 0], starts |-> [t \in Tweens |-> 0],
   threw |-> FALSE]

get(w, t) == w.tw[t].currentState

isPlaying(w, t) == w.tw[t].isTweening /\ ~w.tw[t].isPaused

indexOf(q, t) ==
  IF \E i \in 1..Len(q) : q[i] = t
  THEN (CHOOSE i \in 1..Len(q) : q[i] = t /\ \A j \in 1..(i - 1) : q[j] # t) - 1
  ELSE -1

splice(q, index) ==
  LET start == IF index < 0
               THEN (IF Len(q) + index < 0 THEN 0 ELSE Len(q) + index)
               ELSE (IF index > Len(q) THEN Len(q) ELSE index)
  IN [i \in 1..(IF start < Len(q) THEN Len(q) - 1 ELSE Len(q)) |->
        IF i <= start THEN q[i] ELSE q[i + 1]]

unshift(q, t) == <<t>> \o q

setConfig(w, t, config) ==
  LET T == w.tw[t]
      currentState == IF Len(config.from) > 0 THEN config.from[1]
                      ELSE get(w, t)
      to == IF Len(config.to) > 0 THEN config.to[1] ELSE currentState
  IN [w EXCEPT !.tw[t] =
        [T EXCEPT !.configured = TRUE,
                  !.pausedAtTime = null,
                  !.delay = config.delay,
                  !.duration = config.duration,
                  !.step = IF "step" \in DOMAIN config THEN config.step
                           ELSE noop,
                  !.currentState = currentState,
                  !.originalState = currentState,
                  !.targetState = Spread(currentState, to),
                  !.easing = composeEasingObject(currentState, config.easing),
                  !.promise = [id |-> T.promise.id + 1, state |-> "pending"]]]

stop(w, t, gotoEnd) ==
  LET T == w.tw[t]
      stopped == [T EXCEPT !.isTweening = FALSE, !.isPaused = FALSE]
      q1 == splice(w.q, indexOf(w.q, t))
  IN IF ~T.configured
     THEN [w EXCEPT !.tw[t] = stopped, !.q = q1, !.threw = TRUE]
     ELSE IF gotoEnd
     THEN [w EXCEPT !.tw[t] =
             [stopped EXCEPT
                !.currentState =
                   tweenProps(1, T.currentState, T.originalState,
                              T.targetState, 1, 0, T.easing),
                !.promise = settle(T.promise, "resolved")],
           !.q = q1]
     ELSE [w EXCEPT !.tw[t] =
             [stopped EXCEPT !.promise = settle(T.promise, "rejected")],
           !.q = q1]

pauseForgetsTime(w, t, now) ==
  [w EXCEPT !.tw[t].isPaused = TRUE]

pause(w, t, now) ==
  [w EXCEPT !.tw[t].pausedAtTime = now, !.tw[t].isPaused = TRUE]

resumeNewPromise(w, t, now) ==
  LET T == w.tw[t]
      shifted == IF T.isPaused
                 THEN TAdd(T.timestamp, now - ToNumber(T.pausedAtTime))
                 ELSE T.timestamp
  IN [w EXCEPT !.tw[t] = [T EXCEPT !.timestamp = shifted,
                                   !.isPaused = FALSE,
                                   !.isTweening = TRUE,
                                   !.promise = [id |-> T.promise.id + 1,
                                                state |-> "pending"]],
               !.q = unshift(w.q, t)]

resume(w, t, now) ==
  LET T == w.tw[t]
      shifted == IF T.isPaused
                 THEN TAdd(T.timestamp, now - ToNumber(T.pausedAtTime))
                 ELSE T.timestamp
  IN [w EXCEPT !.tw[t] = [T EXCEPT !.timestamp = shifted,
                                   !.isPaused = FALSE,
                                   !.isTweening = TRUE],
               !.q = unshift(w.q, t)]

tweenRestarts(w, t, config, now) ==
  LET T == w.tw[t]
      w1 == IF config # NoConfig \/ ~T.configured
            THEN setConfig(w, t, config) ELSE w
      w2 == [w1 EXCEPT !.tw[t].timestamp = now, !.starts[t] = @ + 1]
  IN IF config = NoConfig /\ ~T.configured THEN [w EXCEPT !.threw = TRUE]
     ELSE resume(w2, t, now)

tween(w, t, config, now) ==
  LET T == w.tw[t]
      w1 == IF config # NoConfig \/ ~T.configured
            THEN setConfig(w, t, config) ELSE w
      w2 == [w1 EXCEPT !.tw[t].timestamp = now, !.starts[t] = @ + 1]
  IN IF T.isTweening THEN w
     ELSE IF config = NoConfig /\ ~T.configured THEN [w EXCEPT !.threw = TRUE]
     ELSE resume(w2, t, now)

step(w, t, now) ==
  LET callback == w.tw[t].step
      called == [w EXCEPT !.steps[t] = @ + 1]
  IN IF callback.do = "tween" THEN tween(called, callback.on, NoConfig, now)
     ELSE IF callback.do = "stop" THEN stop(called, callback.on, FALSE)
     ELSE called

processTween(w, t, now) ==
  LET T == w.tw[t]
      endTime == TAdd(TAdd(T.timestamp, T.delay), T.duration)
      currentTime == TMin(now, endTime)
      hasEnded == TGeq(currentTime, endTime)
      stepped == step(w, t, now)
  IN IF ~T.configured THEN [w EXCEPT !.threw = TRUE]
     ELSE IF hasEnded
     THEN (IF stepped.threw THEN stepped ELSE stop(stepped, t, TRUE))
     ELSE IF TLess(currentTime, TAdd(T.timestamp, T.delay))
     THEN step([w EXCEPT !.tw[t].currentState =
                  tweenProps(1, T.currentState, T.originalState,
                             T.targetState, 1, 1, T.easing)], t, now)
     ELSE step([w EXCEPT !.tw[t].currentState =
                  tweenProps(currentTime, T.currentState, T.originalState,
                             T.targetState, T.duration,
                             TAdd(T.timestamp, T.delay), T.easing)], t, now)

RECURSIVE processQueueFrom(_, _, _)
processQueueFrom(w, i, now) ==
  IF i = 0 \/ w.threw THEN w
  ELSE IF ~isPlaying(w, w.q[i]) THEN processQueueFrom(w, i - 1, now)
  ELSE processQueueFrom(processTween(w, w.q[i], now), i - 1, now)

processQueue(w, now) == processQueueFrom(w, Len(w.q), now)

seek(w, t, millisecond, now) ==
  LET T == w.tw[t]
      ms == IF millisecond > 0 THEN millisecond ELSE 0
      w1 == [w EXCEPT !.tw[t].timestamp = now - ms]
      w2 == [w1 EXCEPT !.tw[t].isTweening = TRUE, !.tw[t].isPaused = FALSE]
      w3 == processTween(w2, t, now)
  IN IF TAdd(T.timestamp, ms) = 0 THEN w
     ELSE IF isPlaying(w1, t) THEN w1
     ELSE IF w3.threw THEN w3
     ELSE pause(w3, t, now)

(***************************************************************************)
(* The state machine.  clock is what Tweenable.now() returns.  last        *)
(* records the call that produced the current state: its name, the         *)
(* Tweenable it was made on, what it returned, how many times it invoked   *)
(* each Tweenable's step and start callbacks, and whether it threw.        *)
(* pauseHist is a history variable: for a Tweenable that was paused while  *)
(* playing it holds the timestamp it had when paused and the time of the   *)
(* pause, and once resumed the length of the pause; any other call on the  *)
(* Tweenable clears it.                                                    *)
(***************************************************************************)
NoPause == [phase |-> "none", timestamp |-> 0, at |-> 0]

NextPauseHist(call) ==
  [t \in Tweens |->
     IF call.t # t THEN pauseHist[t]
     ELSE IF call.op = "pause" /\ tweens[t].isTweening /\ ~tweens[t].isPaused
               /\ IsTime(tweens[t].timestamp)
     THEN [phase |-> "paused", timestamp |-> tweens[t].timestamp, at |-> clock]
     ELSE IF call.op = "resume" /\ pauseHist[t].phase = "paused"
     THEN [phase |-> "resumed", timestamp |-> pauseHist[t].timestamp,
           at |-> clock - pauseHist[t].at]
     ELSE NoPause]

ReturnsThis(t) == [kind |-> "this", of |-> t, id |-> 0]

ReturnsPromise(w, t) == [kind |-> "promise", of |-> t, id |-> w.tw[t].promise.id]

ReturnsNothing == [kind |-> "none", of |-> 0, id |-> 0]

ReturnsValue(v) == [kind |-> "value", of |-> 0, id |-> 0, value |-> v]

Call(op, t, arg, ret, w) ==
  [op |-> op, t |-> t, arg |-> arg, ret |-> ret,
   steps |-> w.steps, starts |-> w.starts, threw |-> w.threw]

Commit(w, call) ==
  /\ tweens' = w.tw
  /\ tweenQueue' = w.q
  /\ last' = call
  /\ pauseHist' = NextPauseHist(call)
  /\ UNCHANGED clock

Init ==
  /\ tweens = [t \in Tweens |-> NewTweenable]
  /\ tweenQueue = << >>
  /\ clock = 0
  /\ last = Call("new", 0, 0, ReturnsNothing, World)
  /\ pauseHist = [t \in Tweens |-> NoPause]

Configure(t, configs) ==
  \E config \in configs :
    /\ tweens[t].promise.id < MaxPromises
    /\ \E w \in {setConfig(World, t, config)} :
          Commit(w, Call("setConfig", t, 0, ReturnsThis(t), w))

Start(t, configs) ==
  \E config \in configs \cup {NoConfig} :
    /\ config # NoConfig => tweens[t].promise.id < MaxPromises
    /\ Len(tweenQueue) < MaxQueue
    /\ \E w \in {tween(World, t, config, clock)} :
          Commit(w, Call("tween", t, IF config = NoConfig THEN 0 ELSE 1,
                         IF tweens[t].isTweening THEN ReturnsThis(t)
                         ELSE IF w.threw THEN ReturnsNothing
                         ELSE ReturnsPromise(w, t), w))

Pause(t) ==
  \E w \in {pause(World, t, clock)} :
     Commit(w, Call("pause", t, 0, ReturnsThis(t), w))

Resume(t) ==
  /\ Len(tweenQueue) < MaxQueue
  /\ \E w \in {resume(World, t, clock)} :
        Commit(w, Call("resume", t, 0, ReturnsPromise(w, t), w))

Seek(t, seeks) ==
  \E millisecond \in seeks :
    \E w \in {seek(World, t, millisecond, clock)} :
       Commit(w, Call("seek", t, millisecond,
                      IF w.threw THEN ReturnsNothing ELSE ReturnsThis(t), w))

Stop(t) ==
  \E gotoEnd \in BOOLEAN :
    \E w \in {stop(World, t, gotoEnd)} :
       Commit(w, Call("stop", t, IF gotoEnd THEN 1 ELSE 0,
                      IF w.threw THEN ReturnsNothing ELSE ReturnsThis(t), w))

TimeoutHandler ==
  \E w \in {processQueue(World, clock)} :
     Commit(w, Call("processQueue", 0, 0, ReturnsNothing, w))

AdvanceClock(maxTime) ==
  /\ clock < maxTime
  /\ clock' = clock + 1
  /\ last' = Call("clock", 0, 0, ReturnsNothing, World)
  /\ UNCHANGED <<tweens, tweenQueue, pauseHist>>

(***************************************************************************)
(* Spec: one Tweenable driven through every method with every              *)
(* configuration and seek position; the other Tweenables are never used.  *)
(***************************************************************************)
Next ==
  \/ Configure(1, ConfigSet)
  \/ Start(1, ConfigSet)
  \/ Pause(1)
  \/ Resume(1)
  \/ Seek(1, SeekSet)
  \/ Stop(1)
  \/ TimeoutHandler
  \/ AdvanceClock(MaxTime)

Spec == Init /\ [][Next]_vars

(***************************************************************************)
(* SpecQueue: two Tweenables sharing the queue.  The first is started,     *)
(* paused, resumed and stopped; the second is started and stopped.         *)
(***************************************************************************)
QueueTime == 1

NextQueue ==
  \/ Start(1, {ShortConfig})
  \/ Pause(1)
  \/ Resume(1)
  \/ Stop(1)
  \/ Start(2, {ShortConfig})
  \/ Stop(2)
  \/ TimeoutHandler
  \/ AdvanceClock(QueueTime)

SpecQueue == Init /\ [][NextQueue]_vars

(***************************************************************************)
(* SpecCompose: composeEasingObject called on its own with every state     *)
(* object and easing argument.  SpecConfig: setConfig on each of two      *)
(* Tweenables with every combination of from and to key sets.             *)
(***************************************************************************)
Compose(stateObjects, easingArgs) ==
  \E fromTweenParams \in stateObjects, easing \in easingArgs :
    /\ last' = Call("composeEasingObject", 0,
                    [fromTweenParams |-> fromTweenParams, easing |-> easing],
                    ReturnsValue(composeEasingObject(fromTweenParams, easing)),
                    World)
    /\ UNCHANGED <<tweens, tweenQueue, clock, pauseHist>>

NextCompose == Compose(StateObjects, EasingArgs)

SpecCompose == Init /\ [][NextCompose]_vars

NextConfig ==
  \/ Configure(1, KeyConfigSet)
  \/ Configure(2, KeyConfigSet)

SpecConfig == Init /\ [][NextConfig]_vars

(***************************************************************************)
(* SpecLive: the first Tweenable is only ever started; the second is       *)
(* started and stopped.  timeoutHandler reschedules itself before every    *)
(* walk, so processQueue keeps being called, and the clock keeps advancing *)
(* (up to LiveTime): both are weakly fair.  The weak fairness of           *)
(* TimeoutHandler is written out, with TickEnabled the state predicate     *)
(* ENABLED <<TimeoutHandler>>_vars: a walk that would change the state.    *)
(***************************************************************************)
LiveTime == 3

NextLive ==
  \/ Start(1, {ShortConfig})
  \/ Start(2, {ShortConfig})
  \/ Stop(2)
  \/ TimeoutHandler
  \/ AdvanceClock(LiveTime)

TickEnabled ==
  \E w \in {processQueue(World, clock)} :
     \/ w.tw # tweens
     \/ w.q # tweenQueue
     \/ Call("processQueue", 0, 0, ReturnsNothing, w) # last

SpecLive ==
  /\ Init
  /\ [][NextLive]_vars
  /\ WF_vars(AdvanceClock(LiveTime))
  /\ ([]<>(~TickEnabled) \/ []<><<TimeoutHandler>>_vars)

(***************************************************************************)
(* SpecReentrant: the first Tweenable's step callback starts the third     *)
(* Tweenable or stops the second; the second is started by its caller and  *)
(* the third is configured and left for the callback to start.             *)
(***************************************************************************)
ReentrantTime == 1

NextReentrant ==
  \/ Start(1, {StepStartsConfig, StepStopsConfig})
  \/ Start(2, {LinearConfig})
  \/ Configure(3, {LinearConfig})
  \/ TimeoutHandler
  \/ AdvanceClock(ReentrantTime)

SpecReentrant == Init /\ [][NextReentrant]_vars

(***************************************************************************)
(* Properties.                                                             *)
(***************************************************************************)
InQueue(t) == \E i \in 1..Len(tweenQueue) : tweenQueue[i] = t

AtTarget(T) ==
  \A key \in DOMAIN T.currentState : T.currentState[key] = T.targetState[key]

EndedByLastCall(t) ==
  /\ tweens[t].configured
  /\ ~last.threw
  /\ \/ last.op = "stop" /\ last.t = t /\ last.arg = 1
     \/ /\ last.op \in {"processQueue", "seek"}
        /\ last.steps[t] > 0
        /\ ~tweens[t].isTweening

(* C1: once a configured tween has ended (a tick at or past                 *)
(* timestamp+delay+duration, or stop(true)), every key of currentState      *)
(* equals targetState and the deferred result is resolved.                  *)
C1_EndsAtTargetResolved ==
  \A t \in Tweens :
    EndedByLastCall(t) =>
      AtTarget(tweens[t]) /\ tweens[t].promise.state = "resolved"

(* C2: stop(false) on a started tween leaves isTweening and isPaused false, *)
(* the instance nowhere in the run queue, currentState as it was, and the   *)
(* deferred result rejected.                                                *)
C2_StopFalseCancels ==
  [][\A t \in Tweens :
       (last'.op = "stop" /\ last'.t = t /\ last'.arg = 0
          /\ tweens[t].configured /\ tweens[t].isTweening)
       => /\ ~tweens'[t].isTweening
          /\ ~tweens'[t].isPaused
          /\ \A i \in 1..Len(tweenQueue') : tweenQueue'[i] # t
          /\ tweens'[t].currentState = tweens[t].currentState
          /\ tweens'[t].promise.state = "rejected"]_vars

(* C3: in every reachable state a (configured) tween has isTweening true    *)
(* if and only if it is in the run queue.                                   *)
C3_TweeningIffQueued ==
  \A t \in Tweens :
    tweens[t].configured => (tweens[t].isTweening <=> InQueue(t))

(* C4: tween() on a tween that is already playing changes nothing: not the  *)
(* run queue, not the timestamp, flags, configuration or state objects of   *)
(* any tween, and the start callback is not invoked.                        *)
C4_StartWhilePlayingIsNoOp ==
  [][\A t \in Tweens :
       (last'.op = "tween" /\ last'.t = t
          /\ tweens[t].isTweening /\ ~tweens[t].isPaused)
       => /\ tweens' = tweens
          /\ tweenQueue' = tweenQueue
          /\ clock' = clock
          /\ last'.starts[t] = 0
          /\ ~last'.threw]_vars

C4_Witness ==
  /\ last.op = "tween"
  /\ last.ret.kind = "this"
  /\ last.arg = 1
  /\ tweens[last.t].isTweening /\ ~tweens[last.t].isPaused
  /\ InQueue(last.t)

(* C5: tween() on a (configured) tween that is not playing records          *)
(* timestamp = now(), invokes the start callback exactly once, and leaves   *)
(* the tween playing and in the run queue.                                  *)
C5_StartWhenNotPlayingStarts ==
  [][\A t \in Tweens :
       (last'.op = "tween" /\ last'.t = t /\ tweens[t].configured
          /\ ~(tweens[t].isTweening /\ ~tweens[t].isPaused))
       => /\ tweens'[t].timestamp = clock
          /\ last'.starts[t] = 1
          /\ tweens'[t].isTweening /\ ~tweens'[t].isPaused
          /\ \E i \in 1..Len(tweenQueue') : tweenQueue'[i] = t]_vars

NeverPausedCopy(t) ==
  processTween([World EXCEPT !.tw[t].timestamp = pauseHist[t].timestamp,
                             !.tw[t].isTweening = TRUE],
               t, clock - pauseHist[t].at)

(* C6: for a playing tween paused at p and resumed at p+D, the state a tick *)
(* at a later time computes (and whether that tick ends the tween) is what  *)
(* a never-paused copy, keeping the timestamp the tween had when paused,    *)
(* computes at that time minus D.                                           *)
C6_PauseExcludedFromElapsed ==
  \A t \in Tweens :
    (pauseHist[t].phase = "resumed" /\ last.op = "processQueue"
       /\ last.steps[t] > 0)
    => /\ tweens[t].currentState = NeverPausedCopy(t).tw[t].currentState
       /\ tweens[t].isTweening = NeverPausedCopy(t).tw[t].isTweening

C6_Witness ==
  \E t \in Tweens :
    /\ pauseHist[t].phase = "resumed"
    /\ pauseHist[t].at > 0
    /\ last.op = "processQueue"
    /\ last.steps[t] > 0
    /\ tweens[t].isTweening
    /\ tweens[t].currentState # tweens[t].originalState
    /\ ~AtTarget(tweens[t])

(* C7: while a tween is paused (and in the run queue), no scheduler tick    *)
(* and no call on another tween takes it out of the run queue, changes its  *)
(* currentState or flags, or invokes its step callback.                     *)
C7_PausedStaysQueuedUntouched ==
  [][\A t \in Tweens :
       (tweens[t].isTweening /\ tweens[t].isPaused /\ InQueue(t)
          /\ last'.t # t /\ ~last'.threw)
       => /\ \E i \in 1..Len(tweenQueue') : tweenQueue'[i] = t
          /\ tweens'[t] = tweens[t]
          /\ last'.steps[t] = 0]_vars

TickedOnce(t) ==
  /\ last.op = "processQueue"
  /\ last.steps[t] = 1
  /\ tweens[t].configured
  /\ IsTime(tweens[t].timestamp)

Interpolated(T, now) ==
  [key \in DOMAIN T.currentState |->
     tweenProp(T.originalState[key], T.targetState[key], T.easing[key],
               FDivTime(now - T.timestamp - T.delay, T.duration))]

C8_DelayAndWindow ==
  \A t \in Tweens :
    TickedOnce(t) =>
      LET T == tweens[t]
      IN /\ clock < T.timestamp + T.delay
              => T.currentState = T.originalState /\ T.isTweening
         /\ (T.timestamp + T.delay <= clock
               /\ clock < T.timestamp + T.delay + T.duration)
              => T.currentState = Interpolated(T, clock) /\ T.isTweening

(* C8: the state a tick computes depends only on now, timestamp, delay and  *)
(* duration: originalState during the delay, original +                     *)
(* (target - original) * f((now - timestamp - delay) / duration) inside the *)
(* window, and at or past its end the tween auto-stops with currentState    *)
(* equal to targetState and the deferred result resolved.                   *)
C8_TickIsFunctionOfTime ==
  /\ C8_DelayAndWindow
  /\ \A t \in Tweens :
       (TickedOnce(t)
          /\ clock >= tweens[t].timestamp + tweens[t].delay + tweens[t].duration)
       => /\ ~tweens[t].isTweening
          /\ AtTarget(tweens[t])
          /\ tweens[t].promise.state = "resolved"

(* C9: seek(ms) on a configured tween that is not playing runs exactly one  *)
(* tick (the step callback is invoked exactly once) and leaves isPlaying()  *)
(* false.                                                                   *)
C9_SeekWhenNotPlayingTicksOnce ==
  [][\A t \in Tweens :
       (last'.op = "seek" /\ last'.t = t /\ tweens[t].configured
          /\ ~(tweens[t].isTweening /\ ~tweens[t].isPaused))
       => /\ last'.steps[t] = 1
          /\ ~(tweens'[t].isTweening /\ ~tweens'[t].isPaused)]_vars

(* C10: tween() on an already-playing tween returns the tween's existing    *)
(* deferred-result handle.                                                  *)
C10_StartWhilePlayingReturnsPromise ==
  [][\A t \in Tweens :
       (last'.op = "tween" /\ last'.t = t
          /\ tweens[t].isTweening /\ ~tweens[t].isPaused)
       => last'.ret = [kind |-> "promise", of |-> t,
                       id |-> tweens[t].promise.id]]_vars

(* C11 as stated: only setConfig creates a deferred-result handle; tween,   *)
(* pause, resume, seek and stop leave the tween's handle the one it had.    *)
C11_OnlyConfigureCreatesHandle ==
  [][\A t \in Tweens :
       (last'.t = t /\ last'.op \in {"tween", "pause", "resume", "seek", "stop"})
       => tweens'[t].promise.id = tweens[t].promise.id]_vars

(* C11: a deferred-result handle is created only inside setConfig, which    *)
(* runs when setConfig is called or when tween() on a tween that is not     *)
(* tweening is given a config; every other call keeps the handle; resume()  *)
(* returns the tween's current handle; a created handle is new and pending, *)
(* and a tween() that starts a tween whose handle is pending returns that   *)
(* handle, still pending.                                                   *)
C11_HandleCreatedBySetConfigOnly ==
  [][\A t \in Tweens :
       LET created == tweens'[t].promise.id # tweens[t].promise.id
           configures ==
             /\ last'.t = t
             /\ \/ last'.op = "setConfig"
                \/ last'.op = "tween" /\ last'.arg = 1 /\ ~tweens[t].isTweening
       IN /\ created <=> configures
          /\ created => /\ tweens'[t].promise.id > tweens[t].promise.id
                         /\ tweens'[t].promise.state = "pending"
          /\ (last'.op = "resume" /\ last'.t = t)
               => last'.ret = [kind |-> "promise", of |-> t,
                               id |-> tweens[t].promise.id]
          /\ (last'.op = "tween" /\ last'.t = t /\ last'.arg = 0
                /\ last'.ret.kind = "promise"
                /\ tweens[t].promise.state = "pending")
               => /\ last'.ret.id = tweens[t].promise.id
                  /\ tweens'[t].promise.state = "pending"]_vars

C11_Witness ==
  /\ last.op = "tween"
  /\ last.arg = 0
  /\ last.ret.kind = "promise"
  /\ last.ret.id = MaxPromises
  /\ tweens[last.t].promise = [id |-> MaxPromises, state |-> "pending"]
  /\ tweens[last.t].isTweening

(* C12: seek(ms) on a configured tween whose timestamp already equals       *)
(* now - max(ms, 0) is a no-op: no field of the tween changes and the step  *)
(* callback is not invoked, whether or not the tween is playing.            *)
C12_SeekToSameTimestampIsNoOp ==
  [][\A t \in Tweens :
       (last'.op = "seek" /\ last'.t = t /\ tweens[t].configured
          /\ tweens[t].timestamp
               = clock - (IF last'.arg > 0 THEN last'.arg ELSE 0))
       => /\ tweens'[t] = tweens[t]
          /\ last'.steps[t] = 0]_vars

(* C13: composeEasingObject(stateKeys, easingSpec) returns a mapping whose  *)
(* key set is exactly that of stateKeys; for a single name or function      *)
(* every key maps to it; for an object each key maps to the object's entry  *)
(* if it has one and to "linear" otherwise; keys only the easing object has *)
(* do not appear.                                                           *)
C13_ComposeIsTotalOverStateKeys ==
  last.op = "composeEasingObject" =>
    LET stateKeys == DOMAIN last.arg.fromTweenParams
        easingSpec == last.arg.easing
        result == last.ret.value
    IN /\ DOMAIN result = stateKeys
       /\ easingSpec.type \in {"string", "function"}
            => \A k \in stateKeys : result[k] = easingSpec.name
       /\ easingSpec.type = "object"
            => \A k \in stateKeys :
                  result[k] = IF k \in DOMAIN easingSpec.map
                              THEN easingSpec.map[k] ELSE "linear"
       /\ \A k \in DOMAIN easingSpec.map :
            k \notin stateKeys => k \notin DOMAIN result

C13_Witness ==
  /\ last.op = "composeEasingObject"
  /\ DOMAIN last.arg.fromTweenParams = {"x", "y"}
  /\ last.arg.easing.type = "object"
  /\ DOMAIN last.arg.easing.map = {"x", "z"}
  /\ last.ret.value = [x |-> "easeInQuad", y |-> "linear"]

(* C14: after setConfig, whatever from and to were given, currentState,     *)
(* originalState, targetState and the easing map have the same key set.     *)
C14_SameKeySetAfterConfigure ==
  \A t \in Tweens :
    tweens[t].configured =>
      /\ DOMAIN tweens[t].originalState = DOMAIN tweens[t].currentState
      /\ DOMAIN tweens[t].targetState = DOMAIN tweens[t].currentState
      /\ DOMAIN tweens[t].easing = DOMAIN tweens[t].currentState

(* C15: in one processQueue call every (configured) tween that is playing   *)
(* when the walk begins has its step callback invoked exactly once, also    *)
(* when tweens end during the walk and remove themselves from the queue.    *)
C15_EveryPlayingTickedOnce ==
  [][(last'.op = "processQueue" /\ ~last'.threw)
       => \A t \in Tweens :
            (tweens[t].configured /\ tweens[t].isTweening
               /\ ~tweens[t].isPaused)
            => last'.steps[t] = 1]_vars

Occurrences(q, t) == Cardinality({i \in 1..Len(q) : q[i] = t})

(* C16: in every reachable state each tween occurs at most once in the run  *)
(* queue.                                                                   *)
C16_AtMostOnceInQueue ==
  \A t \in Tweens : Occurrences(tweenQueue, t) <= 1

Others(q, S) == SelectSeq(q, LAMBDA u : u \notin S)

EndedInLastCall == {t \in Tweens : last.steps[t] > 0 /\ ~tweens[t].isTweening}

(* C17: a stop() of tween T, called directly, from seek, or from a tick at  *)
(* T's end, leaves the run queue's entries for every other tween as they    *)
(* were, in the same order, whether or not T was in the queue.              *)
C17_StopKeepsOtherEntries ==
  [][/\ (last'.op \in {"stop", "seek"} /\ ~last'.threw)
          => Others(tweenQueue', {last'.t}) = Others(tweenQueue, {last'.t})
     /\ last'.op = "processQueue"
          => Others(tweenQueue', EndedInLastCall')
               = Others(tweenQueue, EndedInLastCall')]_vars

EndsBy(t, time) ==
  /\ tweens[t].configured
  /\ tweens[t].isTweening
  /\ ~tweens[t].isPaused
  /\ IsTime(tweens[t].timestamp)
  /\ tweens[t].timestamp + tweens[t].delay + tweens[t].duration <= time

(* C18: with processQueue called again and again and the clock advancing,   *)
(* a tween that was started and that its caller does not touch again is     *)
(* eventually stopped by a tick, resolved and out of the run queue,         *)
(* whatever is done to the other tween.                                     *)
C18_StartedEventuallyEnds ==
  EndsBy(1, LiveTime)
    ~> (/\ ~tweens[1].isTweening
        /\ tweens[1].promise.state = "resolved"
        /\ ~InQueue(1))

PausedElapsed(T) == T.pausedAtTime - T.timestamp

PausedWithTimes(T) ==
  /\ T.configured /\ T.isTweening /\ T.isPaused
  /\ IsTime(T.timestamp) /\ T.pausedAtTime # null

(* C19: pause intervals do not count as elapsed time.  While a tween stays  *)
(* paused, a further pause() keeps the elapsed time it had when it first    *)
(* became paused (pausedAtTime - timestamp); resume() leaves                *)
(* now - timestamp equal to that elapsed time; and tween() on a tween that  *)
(* is not tweening, also after a pause() before the start, leaves           *)
(* timestamp = now.                                                         *)
C19_ElapsedIgnoresPauses ==
  [][\A t \in Tweens :
       (last'.t = t /\ ~last'.threw)
       => /\ (last'.op = "pause" /\ PausedWithTimes(tweens[t]))
               => PausedElapsed(tweens'[t]) = PausedElapsed(tweens[t])
          /\ (last'.op = "resume" /\ PausedWithTimes(tweens[t]))
               => clock - tweens'[t].timestamp = PausedElapsed(tweens[t])
          /\ (last'.op = "tween" /\ tweens[t].configured
                /\ ~tweens[t].isTweening)
               => tweens'[t].timestamp = clock]_vars

PlayingInQueue(t) ==
  /\ tweens[t].configured
  /\ tweens[t].isTweening /\ ~tweens[t].isPaused
  /\ tweens[t].promise.state = "pending"
  /\ InQueue(t)

(* C20: in a processQueue call in which a step callback starts another      *)
(* tween or stops a tween not yet visited, every tween that was playing     *)
(* and in the queue (once) when the walk began, and that no callback        *)
(* stopped, has its step callback invoked exactly once.                     *)
C20_ReentrantWalkTicksOnce ==
  [][(last'.op = "processQueue" /\ ~last'.threw /\ C16_AtMostOnceInQueue)
       => \A t \in Tweens :
            (PlayingInQueue(t) /\ tweens'[t].promise.state # "rejected")
            => last'.steps[t] = 1]_vars

====
